---- MODULE Spec2Model ----
(***************************************************************************)
(* blurio: client of the blurit.io anonymization API (src/blurio.py) and   *)
(* the command line driver blur_video (src/blur_video.py).                 *)
(*                                                                         *)
(* Python values: None is the empty tuple, any other value v is <<v>>.     *)
(* Time is counted in ticks, TicksPerSecond ticks to a second, so that the *)
(* float arithmetic of token_seconds_left has a fractional part.           *)
(***************************************************************************)
EXTENDS Integers, Sequences, FiniteSets, TLC

\* ------------------------------------------------------------------ bounds
TicksPerSecond == 2
MaxTime == 4
MaxExpire == 2
MaxPolls == 3
MaxInterval == 1
\* highest counter of an output name that exists already
MaxCounter == 10
\* base-1024 digits of a size given to _human_readable_size
MaxLimbs == 6
\* whole megabytes of a file given to calculate_costs
MaxMegabytes == 3

\* ----------------------------------------------------------- Python values
None == << >>
Some(v) == << v >>
Val(x) == x[1]

NoExc == [cls |-> "None", message |-> << >>, type |-> None, code |-> None]

\* class BlurItError and its subclasses: message is prefixed by the type
BlurItError(cls, message, error_type, error_code) ==
    [cls |-> cls,
     message |-> IF error_type # None THEN <<error_type, message>> ELSE <<message>>,
     type |-> error_type,
     code |-> error_code]

\* an exception of the Python runtime that no handler of blurio catches
PyError(cls) == [cls |-> cls, message |-> << >>, type |-> None, code |-> None]

Taxonomy == {"BlurItError", "BlurItAuthError", "BlurItTaskError", "BlurItTaskStatusError",
             "BlurItTaskResultError", "BlurItOptionsError"}

\* ------------------------------------------------------------ HTTP responses
\* A response is a status code and a body. kind "invalid": response.json()
\* raises ValueError; "nonobject": valid JSON that is no dict (list, string,
\* number, null); "object": a dict whose keys are `keys`.
JsonKeys == {"token", "expireTime", "refreshToken", "error", "statusCode", "message",
             "anonymization_job_id", "status", "output_media"}

EmptyBody == [kind |-> "object", keys |-> {},
              token |-> None, expireTime |-> None, refreshToken |-> None,
              error |-> None, statusCode |-> None, message |-> None,
              anonymization_job_id |-> None, status |-> None, output_media |-> None,
              chunks |-> << >>]

InvalidBody == [EmptyBody EXCEPT !.kind = "invalid"]
NonObjectBody == [EmptyBody EXCEPT !.kind = "nonobject"]

Has(content, k) == k \in content.keys
\* dict.get(k): None when the key is missing
Get(content, k) == IF Has(content, k) THEN content[k] ELSE None

NoResp == [status_code |-> 0, body |-> EmptyBody]
Resp(code, body) == [status_code |-> code, body |-> body]

\* null (None) is a value the service can send for token and expireTime;
\* the refresh token comes with its token
Tokens == {None, Some("tokA"), Some("tokB")}
RefreshTokens == {Some("refA"), Some("refB")}
RefreshTokenOf(token) == IF token = Some("tokB") THEN Some("refB") ELSE Some("refA")
ExpireTimes == {Some(e) : e \in 0..MaxExpire}

\* bodies of the login and token endpoints
CredBodies ==
    {InvalidBody, NonObjectBody} \cup
    {b \in [kind : {"object"}, keys : SUBSET {"token", "expireTime", "refreshToken"},
            token : Tokens, expireTime : ExpireTimes \cup {None},
            refreshToken : RefreshTokens \cup {None},
            error : {None}, statusCode : {None}, message : {None},
            anonymization_job_id : {None}, status : {None}, output_media : {None},
            chunks : {<< >>}] :
        /\ ("token" \notin b.keys => b.token = None)
        /\ ("expireTime" \notin b.keys => b.expireTime = None)
        /\ ("refreshToken" \in b.keys <=> b.refreshToken # None)
        /\ ({"token", "refreshToken"} \subseteq b.keys => b.refreshToken = RefreshTokenOf(b.token))}

\* bodies of error responses: {error, statusCode, message}, any part missing
ErrorBodies ==
    {InvalidBody, NonObjectBody} \cup
    {b \in [kind : {"object"}, keys : SUBSET {"error", "statusCode", "message"},
            token : {None}, expireTime : {None}, refreshToken : {None},
            error : {None, Some("Unauthorized")}, statusCode : {None, Some(401)},
            message : {None, Some("denied")},
            anonymization_job_id : {None}, status : {None}, output_media : {None},
            chunks : {<< >>}] :
        /\ ("error" \notin b.keys => b.error = None)
        /\ ("statusCode" \in b.keys <=> b.statusCode # None)
        /\ ("message" \in b.keys <=> b.message # None)}

\* a job id is an opaque value of the service; it is written as a record so
\* that it is comparable with the other values a call returns
JobId(id) == [anonymization_job_id |-> id]
JobIds == {Some(JobId("job1")), Some(JobId("job2"))}

\* 200 bodies of POST anonymization
TaskBodies ==
    {InvalidBody, NonObjectBody} \cup
    {b \in [kind : {"object"}, keys : SUBSET {"anonymization_job_id"},
            token : {None}, expireTime : {None}, refreshToken : {None},
            error : {None}, statusCode : {None}, message : {None},
            anonymization_job_id : JobIds \cup {None}, status : {None}, output_media : {None},
            chunks : {<< >>}] :
        ("anonymization_job_id" \in b.keys <=> b.anonymization_job_id # None)}

RawStatuses == {None, Some("Sent"), Some("Started"), Some("Failed"), Some("Succeeded"),
                Some("Unknown Job"), Some("Queued")}

\* 200 bodies of GET anonymization
StatusBodies ==
    {InvalidBody, NonObjectBody} \cup
    {b \in [kind : {"object"}, keys : SUBSET {"status", "error", "output_media"},
            token : {None}, expireTime : {None}, refreshToken : {None},
            error : {None, Some("crashed")}, statusCode : {None}, message : {None},
            anonymization_job_id : {None}, status : RawStatuses,
            output_media : {None, Some("url1")},
            chunks : {<< >>}] :
        /\ ("status" \notin b.keys => b.status = None)
        /\ ("error" \in b.keys <=> b.error # None)
        /\ ("output_media" \in b.keys <=> b.output_media # None)}

\* 200 bodies of the result URL: the chunks iter_content yields, a chunk
\* being a sequence of bytes
ChunkLists == { << >>, << <<1>>, << >>, <<2, 3>> >>, << << >>, <<2>> >> }
ResultBodies == {[EmptyBody EXCEPT !.kind = "binary", !.chunks = c] : c \in ChunkLists}

LoginResponses == {Resp(200, b) : b \in CredBodies} \cup {Resp(401, b) : b \in ErrorBodies}
TaskResponses == {Resp(200, b) : b \in TaskBodies} \cup {Resp(401, b) : b \in ErrorBodies}
StatusResponses == {Resp(200, b) : b \in StatusBodies} \cup {Resp(401, b) : b \in ErrorBodies}
ResultResponses == {Resp(200, b) : b \in ResultBodies} \cup {Resp(401, b) : b \in ErrorBodies}

\* requests raises ConnectionError (a RequestException, hence an IOError)
\* when no response arrives
ConnError == [status_code |-> -1, body |-> EmptyBody]

\* ------------------------------------------------------------ class BlurIt
\* BlurIt.__init__: the credential fields of a fresh client
NewBlurIt == [token |-> None, expire_time |-> None, refresh_token |-> None,
              token_creation_date |-> None, logged_in |-> FALSE]

\* what a call of a method does: the client afterwards, the exception it
\* raises (NoExc: it returns), the value it returns, the number of HTTP
\* requests it issued and the content it left in the destination file
\* (None: the file was not opened); clock is the datetime.now() that
\* token_seconds_left read, sent the refresh token a request carried
Result(b, exc, ret, reqs) ==
    [blurit |-> b, exc |-> exc, ret |-> ret, reqs |-> reqs, written |-> None, clock |-> None,
     sent |-> None]

InvalidJson == BlurItError("BlurItError", Some("Unable to parse response, invalid JSON."), None, None)
NeedLogin(message) == BlurItError("BlurItAuthError", Some(message), None, None)

\* the branch `if status_code != 200` of every method: the exception raised.
\* fixed_message is the message of login and refresh; the task methods pass
\* None and read content['message'] first.
ErrorFromResponse(cls, fixed_message, content) ==
    IF content.kind = "invalid" THEN InvalidJson
    ELSE IF content.kind # "object" THEN PyError("AttributeError")
    ELSE IF Get(content, "error") # None
         THEN IF fixed_message = None /\ ~Has(content, "message") THEN PyError("KeyError")
              ELSE IF ~Has(content, "statusCode") THEN PyError("KeyError")
              ELSE BlurItError(cls,
                               IF fixed_message = None THEN content.message ELSE fixed_message,
                               content.error, content.statusCode)
         ELSE BlurItError("BlurItError", Some("An unknown error occurred."), None, None)

\* the try block of login and refresh_expired_token on a 200 response: the
\* fields are assigned one by one, a missing key raises KeyError, which
\* neither `except ValueError` nor `except AttributeError` catches
Stamp_keep_date(b2, content, t) ==
    [b2 EXCEPT !.refresh_token = content.refreshToken,
               !.token_creation_date = IF @ = None THEN Some(t) ELSE @,
               !.logged_in = TRUE]

\* the last three assignments of that try block
Stamp(b2, content, t) ==
    [b2 EXCEPT !.refresh_token = content.refreshToken,
               !.token_creation_date = Some(t),
               !.logged_in = TRUE]

StoreCredentials(b, content, t) ==
    IF content.kind = "invalid" THEN [blurit |-> b, exc |-> InvalidJson]
    ELSE IF content.kind # "object" THEN [blurit |-> b, exc |-> PyError("TypeError")]
    ELSE IF ~Has(content, "token") THEN [blurit |-> b, exc |-> PyError("KeyError")]
    ELSE LET b1 == [b EXCEPT !.token = content.token] IN
         IF ~Has(content, "expireTime") THEN [blurit |-> b1, exc |-> PyError("KeyError")]
         ELSE LET b2 == [b1 EXCEPT !.expire_time = content.expireTime] IN
              IF ~Has(content, "refreshToken") THEN [blurit |-> b2, exc |-> PyError("KeyError")]
              ELSE [blurit |-> Stamp(b2, content, t), exc |-> NoExc]

login(b, resp, t) ==
    IF resp = ConnError THEN Result(b, PyError("ConnectionError"), None, 1)
    ELSE IF resp.status_code # 200
    THEN Result(b, ErrorFromResponse("BlurItAuthError", Some("Could not retrieve bearer token."),
                                     resp.body), None, 1)
    ELSE LET s == StoreCredentials(b, resp.body, t) IN Result(s.blurit, s.exc, None, 1)

refresh_expired_token(b, resp, t) ==
    IF ~b.logged_in
    THEN Result(b, NeedLogin("No refresh token found. You need to call login() first."), None, 0)
    ELSE IF b.token = None THEN Result(b, PyError("TypeError"), None, 0)
    ELSE LET post(r) == [r EXCEPT !.sent = b.refresh_token] IN
         IF resp = ConnError THEN post(Result(b, PyError("ConnectionError"), None, 1))
         ELSE IF resp.status_code # 200
         THEN post(Result(b, ErrorFromResponse("BlurItAuthError",
                                               Some("Could not retrieve refreshed bearer token."),
                                               resp.body), None, 1))
         ELSE LET s == StoreCredentials(b, resp.body, t)
              IN  post(Result(s.blurit, s.exc, None, 1))

\* states of the path given to start_task
PathStates == {"missing", "dir", "file", "unreadable"}

UploadFailed_generic ==
    BlurItError("BlurItError", Some("Could not process given file: {0}"), None, None)

\* `except IOError` around open() and requests.post in start_task
UploadFailed ==
    BlurItError("BlurItTaskError", Some("Could not process given file: {0}"), None, None)

\* start_task from `input_path = Path(filepath)` on: the checks of the file
\* and the upload
Upload(b, path, resp) ==
    IF path = "missing"
    THEN Result(b, BlurItError("BlurItTaskError", Some("The given input file does not exist: {0}"),
                               None, None), None, 0)
    ELSE IF path = "dir"
    THEN Result(b, BlurItError("BlurItTaskError",
                               Some("The given input path does not point to a file: {0}"),
                               None, None), None, 0)
    ELSE IF b.token = None THEN Result(b, PyError("TypeError"), None, 0)
    ELSE IF path = "unreadable"
    THEN Result(b, UploadFailed, None, 0)
    ELSE IF resp = ConnError
    THEN Result(b, UploadFailed, None, 1)
    ELSE IF resp.status_code # 200
    THEN Result(b, ErrorFromResponse("BlurItTaskError", None, resp.body), None, 1)
    ELSE IF resp.body.kind = "invalid" THEN Result(b, InvalidJson, None, 1)
    ELSE IF resp.body.kind # "object" THEN Result(b, PyError("TypeError"), None, 1)
    ELSE IF ~Has(resp.body, "anonymization_job_id") THEN Result(b, PyError("KeyError"), None, 1)
    ELSE Result(b, NoExc, resp.body.anonymization_job_id, 1)

start_task_unchecked(b, path, blur_faces, blur_plates, resp) ==
    IF ~b.logged_in
    THEN Result(b, NeedLogin("No bearer token found. You need to call login() first."), None, 0)
    ELSE Upload(b, path, resp)

start_task_options_first(b, path, blur_faces, blur_plates, resp) ==
    IF ~blur_faces /\ ~blur_plates
    THEN Result(b, BlurItError("BlurItOptionsError",
                   Some("You decided not to blur faces and plates in the video. That makes no sense."),
                   None, None), None, 0)
    ELSE IF ~b.logged_in
    THEN Result(b, NeedLogin("No bearer token found. You need to call login() first."), None, 0)
    ELSE Upload(b, path, resp)

start_task(b, path, blur_faces, blur_plates, resp) ==
    IF ~b.logged_in
    THEN Result(b, NeedLogin("No bearer token found. You need to call login() first."), None, 0)
    ELSE IF ~blur_faces /\ ~blur_plates
    THEN Result(b, BlurItError("BlurItOptionsError",
                   Some("You decided not to blur faces and plates in the video. That makes no sense."),
                   None, None), None, 0)
    ELSE Upload(b, path, resp)

\* the last branch of BlurItTaskStatus.__init__: a status that is none of
\* the five known ones
UnknownTaskStatus_ignored(self, json) == [exc |-> NoExc, status |-> Some(self)]

UnknownTaskStatus_as_sent(self, json) ==
    [exc |-> NoExc, status |-> Some([self EXCEPT !.sent = TRUE])]

UnknownTaskStatus(self, json) ==
    [exc |-> [cls |-> "BlurItTaskStatusError",
              message |-> <<Some("Unknown task status: {0}"), json>>,
              type |-> None, code |-> None],
     status |-> None]

\* BlurItTaskStatus.__init__: the exception it raises and the object built
BlurItTaskStatus(job_id, json) ==
    LET self == [job_id |-> job_id, json |-> json, sent |-> FALSE, started |-> FALSE,
                 succeeded |-> FALSE, failed |-> FALSE, result_url |-> None,
                 error_message |-> None]
        raise(e) == [exc |-> e, status |-> None]
        done(st) == [exc |-> NoExc, status |-> Some(st)]
    IN  IF json.kind # "object" THEN raise(PyError("TypeError"))
        ELSE IF ~Has(json, "status") THEN raise(PyError("KeyError"))
        ELSE IF json.status = Some("Sent") THEN done([self EXCEPT !.sent = TRUE])
        ELSE IF json.status = Some("Started") THEN done([self EXCEPT !.started = TRUE])
        ELSE IF json.status = Some("Failed")
             THEN IF ~Has(json, "error") THEN raise(PyError("KeyError"))
                  ELSE done([self EXCEPT !.failed = TRUE, !.error_message = json.error])
        ELSE IF json.status = Some("Succeeded")
             THEN IF ~Has(json, "output_media") THEN raise(PyError("KeyError"))
                  ELSE done([self EXCEPT !.succeeded = TRUE, !.result_url = json.output_media])
        ELSE IF json.status = Some("Unknown Job")
             THEN raise([cls |-> "BlurItTaskStatusError", message |-> <<Some("Unknown job id.")>>,
                         type |-> None, code |-> None])
        ELSE UnknownTaskStatus(self, json)

PollFailed_as_task(b, content) ==
    Result(b, ErrorFromResponse("BlurItTaskError", None, content), None, 1)

PollFailed_logout(b, content) ==
    Result([b EXCEPT !.logged_in = FALSE],
           ErrorFromResponse("BlurItTaskStatusError", None, content), None, 1)

\* the branch `if response.status_code != 200` of get_task_status
PollFailed(b, content) ==
    Result(b, ErrorFromResponse("BlurItTaskStatusError", None, content), None, 1)

\* get_task_status from the building of the headers on
Poll(b, job_id, resp) ==
    IF b.token = None THEN Result(b, PyError("TypeError"), None, 0)
    ELSE IF resp = ConnError THEN Result(b, PyError("ConnectionError"), None, 1)
    ELSE IF resp.status_code # 200
    THEN PollFailed(b, resp.body)
    ELSE IF resp.body.kind = "invalid" THEN Result(b, InvalidJson, None, 1)
    ELSE LET s == BlurItTaskStatus(job_id, resp.body) IN Result(b, s.exc, s.status, 1)

get_task_status_unguarded(b, job_id, resp) == Poll(b, job_id, resp)

get_task_status(b, job_id, resp) ==
    IF ~b.logged_in
    THEN Result(b, NeedLogin("No bearer token found. You need to call login() first."), None, 0)
    ELSE Poll(b, job_id, resp)

WriteChunks_first(chunks) == IF chunks = << >> THEN << >> ELSE Head(chunks)

RECURSIVE WriteChunks(_)
\* the loop over iter_content: every chunk that is not empty is appended
WriteChunks(chunks) ==
    IF chunks = << >> THEN << >>
    ELSE IF Head(chunks) # << >> THEN Head(chunks) \o WriteChunks(Tail(chunks))
    ELSE WriteChunks(Tail(chunks))

\* what the destination does: "ok", open() raises ("open"), the first
\* write() raises ("write")
IoStates == {"ok", "open", "write"}

get_task_result(b, result_url, io, resp) ==
    IF ~b.logged_in
    THEN Result(b, NeedLogin("No bearer token found. You need to call login() first."), None, 0)
    ELSE IF b.token = None THEN Result(b, PyError("TypeError"), None, 0)
    ELSE IF result_url = None THEN Result(b, PyError("MissingSchema"), None, 0)
    ELSE IF resp = ConnError THEN Result(b, PyError("ConnectionError"), None, 1)
    ELSE IF resp.status_code # 200
    THEN Result(b, ErrorFromResponse("BlurItTaskResultError", None, resp.body), None, 1)
    ELSE LET save_failed == BlurItError("BlurItTaskResultError", Some("Could not save file: {0}"),
                                        None, None)
             content == WriteChunks(resp.body.chunks)
         IN  IF io = "open" THEN Result(b, save_failed, None, 1)
             ELSE IF io = "write" /\ content # << >>
                  THEN [Result(b, save_failed, None, 1) EXCEPT !.written = Some(<< >>)]
             ELSE [Result(b, NoExc, None, 1) EXCEPT !.written = Some(content)]

\* int(x) of a float x = n / d, d > 0: truncation toward zero
PyInt(n, d) == IF n >= 0 THEN n \div d ELSE -((-n) \div d)

\* the end of token_seconds_left: a negative value is returned as 0
NonNegative_unclamped(seconds_left) == seconds_left

NonNegative(seconds_left) == IF seconds_left < 0 THEN 0 ELSE seconds_left

token_seconds_left(b, t) ==
    IF ~b.logged_in
    THEN Result(b, NeedLogin("No bearer token found. You need to call login() first."), None, 0)
    ELSE IF b.expire_time = None THEN Result(b, PyError("TypeError"), None, 0)
    ELSE LET diff_ticks == t - Val(b.token_creation_date)
             seconds_left == PyInt(Val(b.expire_time) * TicksPerSecond - diff_ticks, TicksPerSecond)
         IN  [Result(b, NoExc, Some(NonNegative(seconds_left)), 0) EXCEPT !.clock = Some(t)]

token_is_expired(b, t) ==
    LET r == token_seconds_left(b, t)
    IN  IF r.exc # NoExc THEN r
        ELSE IF Val(r.ret) = 0 THEN [r EXCEPT !.ret = Some(TRUE)]
        ELSE [r EXCEPT !.ret = Some(FALSE)]

\* ------------------------------------------------- get_output_filepath
\* A file name is the sequence of its characters; a path is the directory
\* it lies in and its name.
PathOf(parent, name) == [parent |-> parent, name |-> name]

\* str.rfind: the last position of ch in name, 0 when there is none
RFind(name, ch) ==
    LET at == {i \in 1..Len(name) : name[i] = ch}
    IN  IF at = {} THEN 0 ELSE CHOOSE i \in at : \A j \in at : j <= i

\* PurePath.suffix: from the last dot on, unless that dot is the first or the
\* last character of the name
Suffix(name) ==
    LET i == RFind(name, ".")
    IN  IF 1 < i /\ i < Len(name) THEN SubSeq(name, i, Len(name)) ELSE << >>

\* PurePath.stem: the name without its suffix
Stem(name) ==
    LET i == RFind(name, ".")
    IN  IF 1 < i /\ i < Len(name) THEN SubSeq(name, 1, i - 1) ELSE name

DecimalDigits == <<"0", "1", "2", "3", "4", "5", "6", "7", "8", "9">>

RECURSIVE Str(_)
\* str(counter) of a counter >= 0
Str(n) == IF n < 10 THEN <<DecimalDigits[n + 1]>>
          ELSE Str(n \div 10) \o <<DecimalDigits[(n % 10) + 1]>>

Blurred == <<"_", "b", "l", "u", "r", "r", "e", "d">>

NewName_always_numbered(filename, suffix, counter) ==
    filename \o Blurred \o <<"_">> \o Str(counter) \o suffix

\* new_name in the loop of get_output_filepath
NewName(filename, suffix, counter) ==
    IF counter = 0 THEN filename \o Blurred \o suffix
    ELSE filename \o Blurred \o <<"_">> \o Str(counter) \o suffix

RECURSIVE Probe(_, _, _)
\* the loop `while True` of get_output_filepath from the value counter on;
\* files are the names that exist in the directory of path
Probe(path, files, counter) ==
    LET new_name == NewName(Stem(path.name), Suffix(path.name), counter)
    IN  IF new_name \notin files
        THEN [output_filepath |-> Some(PathOf(path.parent, new_name)), files |-> files]
        ELSE Probe(path, files, counter + 1)

get_output_filepath(path, files) == Probe(path, files, 0)

\* names of input files: with a suffix, without one, a hidden file, a name
\* that ends in a dot, a name with two dots
InputNames == {<<"v", ".", "m">>, <<"v">>, <<".", "v">>, <<"v", ".">>,
               <<"v", ".", "t", ".", "g">>}

Parents == {<<"d">>, << >>}

\* the directories get_output_filepath can meet: the input file exists, and
\* so does any set of the names `_blurred` and `_blurred_1` .. `_blurred_MaxCounter`
Directories(name) ==
    {{name} \cup {NewName(Stem(name), Suffix(name), c) : c \in taken} :
        taken \in SUBSET (0..MaxCounter)}

NoNaming == [path |-> PathOf(<< >>, << >>), files |-> {}, output_filepath |-> None]

\* ------------------------------------------------------ calculate_costs
\* The size handed to _human_readable_size is written in base 1024, lowest
\* digit first: dividing by 1024.0 shifts the digits and loses none of them.
LimbValues == {0, 1, 1023}
Sizes == [1..MaxLimbs -> LimbValues]

RECURSIVE Limbs(_, _)
\* the len lowest base-1024 digits of n
Limbs(n, len) == IF len = 0 THEN << >> ELSE <<n % 1024>> \o Limbs(n \div 1024, len - 1)

\* the list of units in _human_readable_size
Units == <<"", "KB", "MB", "GB", "TB">>

\* `size < 1024.0` once size has been divided `divisions` times
Below1024(size, divisions) == \A j \in DOMAIN size : j > divisions + 1 => size[j] = 0

RECURSIVE ForUnit(_, _, _)
\* the loop `for unit in [...]` from the unit of index i on: a unit whose
\* test fails divides size, the last one as well, and the loop ends there
ForUnit(size, divisions, i) ==
    IF Below1024(size, divisions) THEN [divisions |-> divisions, unit |-> Units[i]]
    ELSE IF i = Len(Units) THEN [divisions |-> divisions + 1, unit |-> Units[i]]
    ELSE ForUnit(size, divisions + 1, i + 1)

\* _human_readable_size: the operands of the string it formats, the number
\* being size / 1024^divisions
human_readable_size(size, decimal_places) ==
    LET r == ForUnit(size, 0, 1)
    IN  [size |-> size, divisions |-> r.divisions, decimal_places |-> decimal_places,
         unit |-> r.unit]

\* BlurIt.prices_per_mb, a dict in insertion order; the prices 0.02 and 0.01
\* are written in hundredths
prices_per_mb == <<[range_size |-> "0-1GB", price_per_mb |-> 2],
                   [range_size |-> ">1GB", price_per_mb |-> 1]>>

\* BlurIt.currency, the euro sign
currency == "EUR"

\* The products price * megabytes that lie exactly between two hundredths,
\* as <<price, size in bytes>>, for which round(price * filesize_mb, 2)
\* returns the upper hundredth: the float product is not the exact one, and
\* round() rounds the float. These are the cases below 8 MB.
RoundedUp == {<<2, 262144>>, <<2, 1310720>>, <<2, 1835008>>, <<2, 2883584>>, <<2, 3407872>>,
              <<2, 4456448>>, <<2, 4980736>>, <<2, 6029312>>, <<2, 7077888>>,
              <<1, 524288>>, <<1, 2621440>>, <<1, 3670016>>, <<1, 5767168>>, <<1, 6815744>>}

TotalPrice_truncated(price_per_mb, filesize) == (price_per_mb * filesize) \div (1024 * 1024)

\* round(price_per_mb * filesize_mb, 2), in hundredths
TotalPrice(price_per_mb, filesize) ==
    LET mb == 1024 * 1024
        q == (price_per_mb * filesize) \div mb
        rest == (price_per_mb * filesize) % mb
    IN  IF 2 * rest < mb THEN q
        ELSE IF 2 * rest > mb THEN q + 1
        ELSE IF <<price_per_mb, filesize>> \in RoundedUp THEN q + 1 ELSE q

\* calculate_costs on a file of filesize bytes: the dict returned, and the
\* price table afterwards
calculate_costs(filesize, prices) ==
    [result |->
        [filesize |-> filesize,
         filesize_mb |-> [bytes |-> filesize, per |-> 1024 * 1024],
         filesize_human_readable |-> human_readable_size(Limbs(filesize, MaxLimbs), 2),
         costs |-> [i \in DOMAIN prices |->
                      [range_size |-> prices[i].range_size,
                       total_price |-> [amount |-> TotalPrice(prices[i].price_per_mb, filesize),
                                        currency |-> currency]]]],
     prices_per_mb |-> prices]

\* sizes of the files given to calculate_costs: whole megabytes plus a part
\* of one, among them the parts that make a total lie between two hundredths
Parts == {0, 1, 262144, 524287, 524288, 524289, 786432, 1048575}
FileSizes == {m * 1024 * 1024 + f : m \in 0..MaxMegabytes, f \in Parts}

\* the price table as shipped, and one a caller has reordered
PriceTables == {prices_per_mb, <<prices_per_mb[2], prices_per_mb[1]>>}

NoCosts == [prices_per_mb |-> prices_per_mb, size |-> Limbs(0, MaxLimbs),
            human_readable |-> None, report |-> None]

\* ------------------------------------------------------------------- state
VARIABLES
    blurit,         \* the BlurIt object: token, expire_time, refresh_token,
                    \* token_creation_date, logged_in
    now,            \* datetime.now(), in ticks
    last,           \* the method call whose outcome the caller holds: its arguments, the
                    \* response it got, what it raised or returned; NoCall in between
    authenticated,  \* some login() has returned normally
    pc,             \* position of blur_video
    args,           \* arguments of blur_video and the state of its files: the source,
                    \* what the destination does, the content it had before
    job_id,         \* local job_id of blur_video
    task_status,    \* local task_status of blur_video
    trace,          \* the remote calls blur_video has made, in order
    polls,          \* calls of get_task_status by blur_video
    sleeps,         \* calls of time.sleep by blur_video
    requests,       \* HTTP requests issued during blur_video
    outfile,        \* content of output_filepath, None while it does not exist
    naming,         \* a call of get_output_filepath: its path, the names that exist in
                    \* the directory of the path, the value returned
    costs           \* BlurIt.prices_per_mb and a call of calculate_costs or of
                    \* _human_readable_size: the size given, the value returned

vars == <<blurit, now, last, authenticated, pc, args, job_id, task_status, trace, polls,
          sleeps, requests, outfile, naming, costs>>

tools == <<naming, costs>>

video == <<pc, args, job_id, task_status, trace, polls, sleeps, requests, outfile>>

NoArg == [path |-> "file", blur_faces |-> TRUE, blur_plates |-> TRUE, job_id |-> None,
          result_url |-> None, io |-> "ok"]

NoCall == [op |-> "none", arg |-> NoArg, resp |-> NoResp, exc |-> NoExc, ret |-> None,
           reqs |-> 0, written |-> None, clock |-> None, sent |-> None]

\* a method call with outcome r: the object takes the state the method left
Call(op, arg, resp, r) ==
    /\ blurit' = r.blurit
    /\ last' = [op |-> op, arg |-> arg, resp |-> IF r.reqs = 0 THEN NoResp ELSE resp,
                exc |-> r.exc, ret |-> r.ret, reqs |-> r.reqs, written |-> r.written,
                clock |-> r.clock, sent |-> r.sent]
    /\ authenticated' = (authenticated \/ (op = "login" /\ r.exc = NoExc))

\* the responses a call can get: drawn from S when the call sends its
\* request (r0 is the call's outcome on NoResp), none otherwise
Answers(S, r0) == IF r0.reqs = 0 THEN {NoResp} ELSE S \cup {ConnError}

\* ---------------------------------------------- the client used on its own
Init ==
    /\ blurit = NewBlurIt
    /\ now = 0
    /\ last = NoCall
    /\ authenticated = FALSE
    /\ pc = "client"
    /\ args = [filepath |-> "file", blur_faces |-> TRUE, blur_plates |-> TRUE,
               check_status_interval |-> 1, io |-> "ok", previous |-> None]
    /\ job_id = None
    /\ task_status = None
    /\ trace = << >>
    /\ polls = 0
    /\ sleeps = 0
    /\ requests = 0
    /\ outfile = None
    /\ naming = NoNaming
    /\ costs = NoCosts

\* the caller is done with the outcome of its last call
Forget ==
    /\ last # NoCall
    /\ last' = NoCall
    /\ UNCHANGED <<blurit, now, authenticated, video, tools>>

Tick ==
    /\ now < MaxTime
    /\ now' = now + 1
    /\ UNCHANGED <<blurit, last, authenticated, video, tools>>

Login ==
    /\ last = NoCall
    /\ \E resp \in Answers(LoginResponses, login(blurit, NoResp, now)) :
          Call("login", NoArg, resp, login(blurit, resp, now))
    /\ UNCHANGED <<now, video, tools>>

RefreshExpiredToken ==
    /\ last = NoCall
    /\ \E resp \in Answers(LoginResponses, refresh_expired_token(blurit, NoResp, now)) :
          Call("refresh_expired_token", NoArg, resp, refresh_expired_token(blurit, resp, now))
    /\ UNCHANGED <<now, video, tools>>

StartTask ==
    /\ last = NoCall
    /\ \E path \in PathStates, blur_faces \in BOOLEAN, blur_plates \in BOOLEAN :
       \E resp \in Answers(TaskResponses, start_task(blurit, path, blur_faces, blur_plates, NoResp)) :
          Call("start_task",
               [NoArg EXCEPT !.path = path, !.blur_faces = blur_faces, !.blur_plates = blur_plates],
               resp, start_task(blurit, path, blur_faces, blur_plates, resp))
    /\ UNCHANGED <<now, video, tools>>

GetTaskStatus ==
    /\ last = NoCall
    /\ \E j \in JobIds :
       \E resp \in Answers(StatusResponses, get_task_status(blurit, j, NoResp)) :
          Call("get_task_status", [NoArg EXCEPT !.job_id = j], resp,
               get_task_status(blurit, j, resp))
    /\ UNCHANGED <<now, video, tools>>

GetTaskResult ==
    /\ last = NoCall
    /\ \E url \in {None, Some("url1")}, io \in IoStates :
       \E resp \in Answers(ResultResponses, get_task_result(blurit, url, io, NoResp)) :
          Call("get_task_result", [NoArg EXCEPT !.result_url = url, !.io = io], resp,
               get_task_result(blurit, url, io, resp))
    /\ UNCHANGED <<now, video, tools>>

TokenSecondsLeft ==
    /\ last = NoCall
    /\ Call("token_seconds_left", NoArg, NoResp, token_seconds_left(blurit, now))
    /\ UNCHANGED <<now, video, tools>>

TokenIsExpired ==
    /\ last = NoCall
    /\ Call("token_is_expired", NoArg, NoResp, token_is_expired(blurit, now))
    /\ UNCHANGED <<now, video, tools>>

Next ==
    \/ Forget
    \/ Tick
    \/ Login
    \/ RefreshExpiredToken
    \/ StartTask
    \/ GetTaskStatus
    \/ GetTaskResult
    \/ TokenSecondsLeft
    \/ TokenIsExpired

Spec == Init /\ [][Next]_vars

\* ------------------------------------------------------------- blur_video
\* blur_video(filepath, output_filepath, blur_faces, blur_plates,
\* check_status_interval) right after it has built its BlurIt object
InitVideo ==
    /\ blurit = NewBlurIt
    /\ now = 0
    /\ last = NoCall
    /\ authenticated = FALSE
    /\ pc = "login"
    /\ args \in [filepath : PathStates, blur_faces : BOOLEAN, blur_plates : BOOLEAN,
                 check_status_interval : 1..MaxInterval, io : IoStates,
                 previous : {None, Some(<<9>>)}]
    /\ job_id = None
    /\ task_status = None
    /\ trace = << >>
    /\ polls = 0
    /\ sleeps = 0
    /\ requests = 0
    /\ outfile = args.previous
    /\ naming = NoNaming
    /\ costs = NoCosts

Invoke_swallow(op, arg, traced, resp, r, next_pc) ==
    /\ Call(op, arg, resp, r)
    /\ trace' = Append(trace, [op |-> op, arg |-> traced])
    /\ requests' = requests + r.reqs
    /\ pc' = next_pc

\* a method call made by blur_video: an exception leaves blur_video
Invoke(op, arg, traced, resp, r, next_pc) ==
    /\ Call(op, arg, resp, r)
    /\ trace' = Append(trace, [op |-> op, arg |-> traced])
    /\ requests' = requests + r.reqs
    /\ pc' = IF r.exc # NoExc THEN "raised" ELSE next_pc

\* blurit.login()
VideoLogin ==
    /\ pc = "login"
    /\ \E resp \in Answers(LoginResponses, login(blurit, NoResp, now)) :
          Invoke("login", NoArg, None, resp, login(blurit, resp, now), "start_task")
    /\ UNCHANGED <<now, args, job_id, task_status, polls, sleeps, outfile, tools>>

\* job_id = blurit.start_task(filepath, blur_faces=blur_faces, blur_plates=blur_plates)
VideoStartTask ==
    /\ pc = "start_task"
    /\ \E resp \in Answers(TaskResponses,
                          start_task(blurit, args.filepath, args.blur_faces, args.blur_plates, NoResp)) :
          LET r == start_task(blurit, args.filepath, args.blur_faces, args.blur_plates, resp)
          IN  /\ Invoke("start_task",
                        [NoArg EXCEPT !.path = args.filepath, !.blur_faces = args.blur_faces,
                                      !.blur_plates = args.blur_plates],
                        None, resp, r, "get_task_status")
              /\ job_id' = IF r.exc = NoExc THEN r.ret ELSE job_id
    /\ UNCHANGED <<now, args, task_status, polls, sleeps, outfile, tools>>

AfterPoll_only_succeeded(st) == IF st.succeeded THEN "get_task_result" ELSE "sleep"

AfterPoll_fetch_always(st) == IF st.succeeded \/ st.failed THEN "get_task_result" ELSE "sleep"

AfterPoll_failed_raises(st) ==
    IF st.succeeded THEN "get_task_result" ELSE IF st.failed THEN "raised" ELSE "sleep"

\* where blur_video goes after a poll that returned status st
AfterPoll(st) ==
    IF st.succeeded \/ st.failed
    THEN IF st.succeeded THEN "get_task_result" ELSE "done"
    ELSE "sleep"

\* task_status = blurit.get_task_status(job_id), and the tests that follow
VideoGetTaskStatus ==
    /\ pc = "get_task_status"
    /\ polls < MaxPolls
    /\ \E resp \in Answers(StatusResponses, get_task_status(blurit, job_id, NoResp)) :
          LET r == get_task_status(blurit, job_id, resp)
          IN  /\ Invoke("get_task_status", [NoArg EXCEPT !.job_id = job_id], job_id, resp, r,
                        IF r.exc = NoExc THEN AfterPoll(Val(r.ret)) ELSE "raised")
              /\ task_status' = IF r.exc = NoExc THEN r.ret ELSE task_status
    /\ polls' = polls + 1
    /\ UNCHANGED <<now, args, job_id, sleeps, outfile, tools>>

\* time.sleep(check_status_interval)
VideoSleep ==
    /\ pc = "sleep"
    /\ sleeps' = sleeps + 1
    /\ now' = now + args.check_status_interval * TicksPerSecond
    /\ pc' = "get_task_status"
    /\ UNCHANGED <<blurit, last, authenticated, args, job_id, task_status, trace, polls,
                   requests, outfile, tools>>

\* blurit.get_task_result(task_status.result_url, output_filepath)
VideoGetTaskResult ==
    /\ pc = "get_task_result"
    /\ LET url == Val(task_status).result_url IN
       \E resp \in Answers(ResultResponses, get_task_result(blurit, url, args.io, NoResp)) :
          LET r == get_task_result(blurit, url, args.io, resp)
          IN  /\ Invoke("get_task_result", [NoArg EXCEPT !.result_url = url, !.io = args.io],
                        url, resp, r, "done")
              /\ outfile' = IF r.written # None THEN r.written ELSE outfile
    /\ UNCHANGED <<now, args, job_id, task_status, polls, sleeps, tools>>

NextVideo ==
    \/ VideoLogin
    \/ VideoStartTask
    \/ VideoGetTaskStatus
    \/ VideoSleep
    \/ VideoGetTaskResult

SpecVideo == InitVideo /\ [][NextVideo]_vars

\* ------------------------------------- the client alone or under blur_video
InitAll == Init \/ InitVideo

NextAll ==
    \/ (pc = "client" /\ Next)
    \/ NextVideo

SpecAll == InitAll /\ [][NextAll]_vars

\* ------------------------------------------ blur_video waiting without end
\* SpecVideo follows blur_video through its first MaxPolls polls. Here the
\* loop goes on after them: polls, sleeps, trace, requests and the clock stop
\* counting (blur_video reads none of them), the calls and the tests of the
\* loop stay what they are.
InitWait ==
    /\ InitVideo
    /\ args.filepath = "file"
    /\ args.blur_faces /\ args.blur_plates
    /\ args.previous = None

WhileTrue_max_polls == polls < MaxPolls

\* the condition of the loop `while True`
WhileTrue == TRUE

\* task_status = blurit.get_task_status(job_id) and the tests that follow,
\* after the polls that are counted
LaterGetTaskStatus ==
    /\ pc = "get_task_status"
    /\ polls = MaxPolls
    /\ WhileTrue
    /\ \E resp \in Answers(StatusResponses, get_task_status(blurit, job_id, NoResp)) :
          LET r == get_task_status(blurit, job_id, resp)
          IN  /\ pc' = IF r.exc = NoExc THEN AfterPoll(Val(r.ret)) ELSE "raised"
              /\ Call("get_task_status", [NoArg EXCEPT !.job_id = job_id], resp, r)
              /\ task_status' = IF r.exc = NoExc THEN r.ret ELSE task_status
    /\ UNCHANGED <<now, args, job_id, trace, polls, sleeps, requests, outfile, tools>>

\* time.sleep(check_status_interval), after the polls that are counted
LaterSleep ==
    /\ pc = "sleep"
    /\ polls = MaxPolls
    /\ sleeps' = MaxPolls
    /\ pc' = "get_task_status"
    /\ UNCHANGED <<blurit, now, last, authenticated, args, job_id, task_status, trace, polls,
                   requests, outfile, tools>>

NextWait ==
    \/ VideoLogin
    \/ VideoStartTask
    \/ VideoGetTaskStatus
    \/ (polls < MaxPolls /\ VideoSleep)
    \/ LaterGetTaskStatus
    \/ LaterSleep
    \/ VideoGetTaskResult

\* blur_video is one thread: a call returns or raises, a sleep ends
SpecWait == InitWait /\ [][NextWait]_vars /\ WF_vars(NextWait)

\* ------------------------------------------- get_output_filepath on its own
\* the program before it has logged in anywhere
Idle ==
    /\ blurit = NewBlurIt
    /\ now = 0
    /\ last = NoCall
    /\ authenticated = FALSE
    /\ args = [filepath |-> "file", blur_faces |-> TRUE, blur_plates |-> TRUE,
               check_status_interval |-> 1, io |-> "ok", previous |-> None]
    /\ job_id = None
    /\ task_status = None
    /\ trace = << >>
    /\ polls = 0
    /\ sleeps = 0
    /\ requests = 0
    /\ outfile = None

InitNaming ==
    /\ Idle
    /\ pc = "get_output_filepath"
    /\ \E parent \in Parents, name \in InputNames :
       \E files \in Directories(name) :
          naming = [path |-> PathOf(parent, name), files |-> files, output_filepath |-> None]
    /\ costs = NoCosts

\* output_filepath = get_output_filepath(filepath)
GetOutputFilepath ==
    /\ pc = "get_output_filepath"
    /\ naming.output_filepath = None
    /\ LET r == get_output_filepath(naming.path, naming.files)
       IN  naming' = [naming EXCEPT !.output_filepath = r.output_filepath, !.files = r.files]
    /\ UNCHANGED <<blurit, now, last, authenticated, video, costs>>

NextNaming == GetOutputFilepath

SpecNaming == InitNaming /\ [][NextNaming]_vars

\* ----------------------------------------------- calculate_costs on its own
InitCosts ==
    /\ Idle
    /\ pc = "calculate_costs"
    /\ naming = NoNaming
    /\ costs \in {[NoCosts EXCEPT !.prices_per_mb = t] : t \in PriceTables}

\* BlurIt._human_readable_size(size, 2)
HumanReadableSize ==
    /\ pc = "calculate_costs"
    /\ costs.human_readable = None /\ costs.report = None
    /\ \E size \in Sizes :
          costs' = [costs EXCEPT !.size = size,
                                 !.human_readable = Some(human_readable_size(size, 2))]
    /\ UNCHANGED <<blurit, now, last, authenticated, video, naming>>

\* BlurIt.calculate_costs(path) on a file of filesize bytes, once or again
CalculateCosts ==
    /\ pc = "calculate_costs"
    /\ costs.human_readable = None
    /\ \E filesize \in FileSizes :
          LET r == calculate_costs(filesize, costs.prices_per_mb)
          IN  costs' = [costs EXCEPT !.size = Limbs(filesize, MaxLimbs),
                                     !.report = Some(r.result),
                                     !.prices_per_mb = r.prices_per_mb]
    /\ UNCHANGED <<blurit, now, last, authenticated, video, naming>>

NextCosts ==
    \/ HumanReadableSize
    \/ CalculateCosts

SpecCosts == InitCosts /\ [][NextCosts]_vars

\* ------------------------------------------------------------------ claims
NoTarget == last.op = "start_task" /\ ~last.arg.blur_faces /\ ~last.arg.blur_plates

\* C1, as stated: start_task with blur_faces = False and blur_plates = False
\* raises BlurItOptionsError and sends nothing, logged in or not.
C1_AlwaysOptionsError ==
    NoTarget => (last.exc.cls = "BlurItOptionsError" /\ last.reqs = 0)

\* C1, amended: start_task with blur_faces = False and blur_plates = False
\* never sends a request and always raises: BlurItOptionsError on a client
\* that has logged in, BlurItAuthError on a client that never has.
C1_NoTargetNeverSends ==
    NoTarget =>
        /\ last.reqs = 0
        /\ last.resp = NoResp
        /\ last.exc.cls = IF authenticated THEN "BlurItOptionsError" ELSE "BlurItAuthError"

C1_Witness ==
    NoTarget /\ authenticated /\ last.exc.cls = "BlurItOptionsError" /\ last.arg.path = "file"

GuardedOps == {"refresh_expired_token", "start_task", "get_task_status", "get_task_result",
               "token_seconds_left", "token_is_expired"}

\* C2: while no login has succeeded, a call of refresh_expired_token,
\* start_task, get_task_status, get_task_result, token_seconds_left or
\* token_is_expired raises BlurItAuthError, sends no request and leaves the
\* credential fields as they were, whatever the arguments.
C2_NotAuthenticated ==
    [][(~authenticated /\ now' = now /\ last'.op \in GuardedOps)
          => (/\ last'.exc.cls = "BlurItAuthError"
              /\ last'.reqs = 0
              /\ last'.resp = NoResp
              /\ blurit' = blurit)]_vars

\* a failed login has left a token behind, and the poll is still refused
C2_Witness ==
    /\ ~authenticated
    /\ blurit.token # None
    /\ last.op = "get_task_status"
    /\ last.exc.cls = "BlurItAuthError"

StatusNames == {Some("Sent"), Some("Started"), Some("Succeeded"), Some("Failed")}

\* C3: on a 200 response get_task_status returns a status only for the raw
\* values Sent, Started, Succeeded and Failed, with the flag of that name
\* set; for "Unknown Job" and for any other raw value it raises
\* BlurItTaskStatusError and returns nothing, with two different messages.
C3_StatusClassification ==
    (last.op = "get_task_status" /\ last.resp.status_code = 200) =>
        LET raw == last.resp.body.status IN
        /\ last.ret # None =>
              /\ last.exc = NoExc
              /\ raw \in StatusNames
              /\ (Val(last.ret).sent <=> raw = Some("Sent"))
              /\ (Val(last.ret).started <=> raw = Some("Started"))
              /\ (Val(last.ret).succeeded <=> raw = Some("Succeeded"))
              /\ (Val(last.ret).failed <=> raw = Some("Failed"))
        /\ (last.resp.body.kind = "object" /\ Has(last.resp.body, "status") /\ raw \notin StatusNames) =>
              /\ last.ret = None
              /\ last.exc.cls = "BlurItTaskStatusError"
              /\ (raw = Some("Unknown Job") => last.exc.message = <<Some("Unknown job id.")>>)
              /\ (raw # Some("Unknown Job") => last.exc.message[1] = Some("Unknown task status: {0}"))

C3_Witness ==
    /\ last.op = "get_task_status"
    /\ last.resp.status_code = 200
    /\ last.resp.body.status = Some("Queued")
    /\ last.exc.cls = "BlurItTaskStatusError"

Terminal(st) == st # None /\ (Val(st).succeeded \/ Val(st).failed)

\* C4: in the wait loop of blur_video a sleep happens only right after a
\* poll that returned Sent or Started and leads to another poll; once a poll
\* has returned Succeeded or Failed there is no further sleep and no further
\* poll; a run that finishes normally has slept once less than it polled.
C4_SleepBetweenPolls ==
    /\ [](pc = "done" => sleeps = polls - 1)
    /\ [][sleeps' # sleeps =>
            /\ sleeps' = sleeps + 1
            /\ last.op = "get_task_status"
            /\ last.exc = NoExc
            /\ (Val(last.ret).sent \/ Val(last.ret).started)
            /\ ~Terminal(last.ret)
            /\ pc' = "get_task_status"]_vars
    /\ [][Terminal(task_status) => (sleeps' = sleeps /\ polls' = polls)]_vars

C4_Witness == pc = "done" /\ sleeps >= 2 /\ polls = sleeps + 1

\* C5: the remote calls of blur_video are login, start_task, then polls,
\* then at most one get_task_result as the last call: start_task comes after
\* a login that succeeded, each poll is given the job id start_task
\* returned, get_task_result comes right after a poll that returned
\* Succeeded and is given the result URL of that poll.
C5_CallOrder ==
    /\ \A i \in 1..Len(trace) :
          /\ (i = 1) <=> (trace[i].op = "login")
          /\ (i = 2) <=> (trace[i].op = "start_task")
          /\ trace[i].op \in {"login", "start_task", "get_task_status", "get_task_result"}
          /\ trace[i].op = "get_task_status" => trace[i].arg = job_id
          /\ trace[i].op = "get_task_result" =>
                /\ i = Len(trace)
                /\ trace[i - 1].op = "get_task_status"
                /\ Terminal(task_status)
                /\ Val(task_status).succeeded
                /\ trace[i].arg = Val(task_status).result_url
    /\ (Len(trace) >= 2 => authenticated /\ blurit.logged_in)
    /\ ((last.op = "start_task" /\ last.exc = NoExc) => job_id = last.ret)
    /\ ((last.op = "get_task_status" /\ last.exc = NoExc) => task_status = last.ret)

C5_Witness ==
    /\ pc = "done"
    /\ Len(trace) >= 5
    /\ trace[Len(trace)].op = "get_task_result"
    /\ trace[Len(trace)].arg = Some("url1")
    /\ job_id = Some(JobId("job2"))

\* C6: no call is retried: a method call issues at most one HTTP request,
\* and in blur_video the first call that raises ends the run, after which no
\* request is sent, no sleep happens and the output file is not written.
C6_NoRetry ==
    /\ [](/\ last.reqs <= 1
          /\ (pc # "client" => /\ (last.exc # NoExc <=> pc = "raised")
                               /\ requests <= Len(trace)))
    /\ [][pc = "raised" => UNCHANGED <<requests, sleeps, outfile, trace>>]_vars

C6_Witness ==
    /\ pc = "raised"
    /\ polls >= 2
    /\ last.op = "get_task_status"
    /\ last.exc.cls = "BlurItTaskStatusError"
    /\ last.reqs = 1

Max0(x) == IF x < 0 THEN 0 ELSE x

\* ticks of lifetime left when the last call read the clock (negative once
\* the lifetime is over)
Remaining ==
    Val(blurit.expire_time) * TicksPerSecond - (Val(last.clock) - Val(blurit.token_creation_date))

Returned(op) == last.op = op /\ last.exc = NoExc

\* what token_seconds_left would return at time t
SecondsLeftAt(b, t) == Val(token_seconds_left(b, t).ret)

\* as long as the credential is the same, what token_seconds_left returns
\* does not increase
SecondsLeftDecreases ==
    [][(blurit.logged_in /\ blurit.expire_time # None /\ blurit' = blurit)
          => SecondsLeftAt(blurit', now') <= SecondsLeftAt(blurit, now)]_vars

\* C7, as stated: for a fixed credential token_seconds_left is never
\* negative, does not increase as the clock advances, and equals
\* max(0, expire_time - elapsed seconds).
C7_ExactRemainder ==
    /\ [](Returned("token_seconds_left") =>
             /\ Val(last.ret) >= 0
             /\ Val(last.ret) * TicksPerSecond = Max0(Remaining))
    /\ SecondsLeftDecreases

\* C7, amended: for a fixed credential token_seconds_left is never negative,
\* does not increase as the clock advances, and equals
\* max(0, expire_time - elapsed seconds) cut down to whole seconds: it is
\* the largest integer that is not above the lifetime left.
C7_WholeSecondsLeft ==
    /\ [](Returned("token_seconds_left") =>
             /\ Val(last.ret) >= 0
             /\ Val(last.ret) * TicksPerSecond <= Max0(Remaining)
             /\ Max0(Remaining) < (Val(last.ret) + 1) * TicksPerSecond)
    /\ SecondsLeftDecreases

\* a call between two whole seconds, with lifetime left
C7_Witness ==
    /\ Returned("token_seconds_left")
    /\ Remaining > 0
    /\ Remaining % TicksPerSecond # 0
    /\ Remaining < Val(blurit.expire_time) * TicksPerSecond

\* what token_is_expired would return at time t
IsExpired(b, t) == b.logged_in /\ token_is_expired(b, t).ret = Some(TRUE)

SuccessfulLoginOrRefresh ==
    now' = now /\ last'.op \in {"login", "refresh_expired_token"} /\ last'.exc = NoExc

\* C8: on a logged-in client token_is_expired returns True exactly when
\* token_seconds_left at that instant is 0, and once it returns True it
\* keeps returning True until a login or a refresh succeeds.
C8_ExpiredUntilRenewed ==
    /\ [](Returned("token_is_expired") =>
             (last.ret = Some(TRUE) <=> token_seconds_left(blurit, Val(last.clock)).ret = Some(0)))
    /\ [][(IsExpired(blurit, now) /\ ~SuccessfulLoginOrRefresh) => IsExpired(blurit', now')]_vars

ErrorResponse == last.resp.status_code \notin {200, NoResp.status_code, ConnError.status_code}

SpecificError ==
    CASE last.op \in {"login", "refresh_expired_token"} -> "BlurItAuthError"
      [] last.op = "start_task" -> "BlurItTaskError"
      [] last.op = "get_task_result" -> "BlurItTaskResultError"
      [] OTHER -> "BlurItTaskStatusError"

\* C9: a response other than 200 to login, refresh_expired_token,
\* start_task or get_task_result makes the call raise an error of the
\* taxonomy, whatever the body: BlurItError when the body does not parse or
\* has no error field, else the error kind of the operation with the remote
\* error type and statusCode.
C9_ErrorsClassified ==
    (last.op \in {"login", "refresh_expired_token", "start_task", "get_task_result"} /\ ErrorResponse) =>
        LET content == last.resp.body IN
        /\ last.exc.cls \in Taxonomy
        /\ content.kind = "invalid" => last.exc.cls = "BlurItError"
        /\ (content.kind # "invalid" /\ Get(content, "error") = None) => last.exc.cls = "BlurItError"
        /\ (content.kind # "invalid" /\ Get(content, "error") # None) =>
              /\ last.exc.cls = SpecificError
              /\ last.exc.type = content.error
              /\ last.exc.code = Get(content, "statusCode")

\* C10: a 200 response without an expected field raises BlurItError:
\* start_task when anonymization_job_id is missing, login and
\* refresh_expired_token when token, expireTime or refreshToken is missing.
C10_MalformedSuccess ==
    (last.resp.status_code = 200 /\ last.resp.body.kind = "object") =>
        /\ (last.op = "start_task" /\ ~Has(last.resp.body, "anonymization_job_id"))
              => last.exc.cls = "BlurItError"
        /\ (/\ last.op \in {"login", "refresh_expired_token"}
            /\ ~({"token", "expireTime", "refreshToken"} \subseteq last.resp.body.keys))
              => last.exc.cls = "BlurItError"

\* the name get_output_filepath has to return for counter n, by the rule
\* <stem>_blurred<suffix> and <stem>_blurred_<n><suffix>
Expected(n) ==
    LET name == naming.path.name
    IN  IF n = 0 THEN Stem(name) \o Blurred \o Suffix(name)
        ELSE Stem(name) \o Blurred \o <<"_">> \o Str(n) \o Suffix(name)

\* C11: get_output_filepath returns a path of the input's directory whose
\* name does not exist; the name is <stem>_blurred<suffix> when that one is
\* unused, otherwise <stem>_blurred_<n><suffix> for the smallest n >= 1 that
\* is unused, with or without a suffix; stem and suffix put together are the
\* input's name; and the call creates no file.
C11_FirstUnusedName ==
    /\ [](naming.output_filepath # None =>
            LET out == Val(naming.output_filepath) IN
            /\ out.parent = naming.path.parent
            /\ out.name \notin naming.files
            /\ Stem(naming.path.name) \o Suffix(naming.path.name) = naming.path.name
            /\ \E n \in 0..(MaxCounter + 1) :
                  /\ out.name = Expected(n)
                  /\ \A m \in 0..(n - 1) : Expected(m) \in naming.files)
    /\ [][naming'.files = naming.files]_vars

\* an input without suffix whose names _blurred .. _blurred_9 are all taken
C11_Witness ==
    /\ naming.output_filepath # None
    /\ Suffix(naming.path.name) = << >>
    /\ \A m \in 0..9 : Expected(m) \in naming.files
    /\ Val(naming.output_filepath).name =
          naming.path.name \o Blurred \o <<"_", "1", "0">>

RECURSIVE Concat(_)
\* the body of a response: its chunks put end to end
Concat(chunks) == IF chunks = << >> THEN << >> ELSE Head(chunks) \o Concat(Tail(chunks))

Fetched == pc = "done" /\ last.op = "get_task_result" /\ last.exc = NoExc

\* C12: when blur_video has submitted, polled until Succeeded and fetched,
\* the destination holds exactly the bytes of the response body, in order,
\* whatever it held before; only zero-length chunks are left out.
C12_OutputIsBody ==
    Fetched =>
        /\ Val(task_status).succeeded
        /\ outfile = Some(Concat(last.resp.body.chunks))

\* a body with an empty chunk in the middle, fetched into a destination that
\* had content
C12_Witness ==
    /\ Fetched
    /\ args.previous = Some(<<9>>)
    /\ last.resp.body.chunks = << <<1>>, << >>, <<2, 3>> >>
    /\ outfile = Some(<<1, 2, 3>>)

\* C13, as stated: _human_readable_size picks the first unit of '', KB, MB,
\* GB, TB that brings the number shown below 1024, TB when none does, and
\* the number shown is the size divided by 1024 as many times as the index
\* of that unit (0 for '', 4 for TB), also from 1024 TB on.
C13_DividedByUnitIndex ==
    costs.human_readable # None =>
        LET h == Val(costs.human_readable)
            index == CHOOSE i \in 0..4 : Units[i + 1] = h.unit
            fits == {i \in 0..4 : Below1024(h.size, i)}
        IN  /\ h.divisions = index
            /\ index = IF fits = {} THEN 4 ELSE CHOOSE i \in fits : \A j \in fits : i <= j

Nearest(amount, product) ==
    LET d == amount * 1024 * 1024 - product
    IN  2 * d <= 1024 * 1024 /\ -(1024 * 1024) <= 2 * d

\* C14: calculate_costs returns the size in bytes as it is, the size in
\* megabytes as bytes / 1024 / 1024, and one cost record per tier of the
\* price table, in the order of the table, whose total is a hundredth
\* nearest to price per megabyte times megabytes; it leaves the price table
\* as it was, and a second call on the same size returns the same.
C14_CostsOfSize ==
    /\ [](costs.report # None =>
            LET report == Val(costs.report)
                table == costs.prices_per_mb
            IN  /\ Limbs(report.filesize, MaxLimbs) = costs.size
                /\ report.filesize_mb = [bytes |-> report.filesize, per |-> 1048576]
                /\ Len(report.costs) = Len(table)
                /\ \A i \in 1..Len(table) :
                      /\ report.costs[i].range_size = table[i].range_size
                      /\ Nearest(report.costs[i].total_price.amount,
                                 table[i].price_per_mb * report.filesize))
    /\ [][costs'.prices_per_mb = costs.prices_per_mb]_vars
    /\ [][(costs.report # None /\ costs'.report # None /\ costs'.size = costs.size)
             => costs'.report = costs.report]_vars

\* the file of one megabyte of the repository's test, and a file of a
\* quarter of a megabyte, whose first total lies between 0.00 and 0.01
C14_Witness ==
    /\ costs.report # None
    /\ costs.prices_per_mb = prices_per_mb
    /\ \/ /\ Val(costs.report).filesize = 1048576
          /\ Val(costs.report).costs[1].total_price.amount = 2
          /\ Val(costs.report).costs[2].total_price.amount = 1
       \/ /\ Val(costs.report).filesize = 262144
          /\ Val(costs.report).costs[1].total_price.amount = 1
          /\ Val(costs.report).costs[2].total_price.amount = 0

Renewal == {"login", "refresh_expired_token"}

\* C15, as stated: a login or refresh_expired_token call that raises leaves
\* token, expire_time, refresh_token, token_creation_date and logged_in as
\* they were before the call, whatever the response.
C15_FailedCallKeepsCredential ==
    [][(last' # last /\ last'.op \in Renewal /\ last'.exc # NoExc) => blurit' = blurit]_vars

TaskOps == {"start_task", "get_task_status", "get_task_result"}

\* C16: only login and refresh_expired_token change the credential;
\* start_task, get_task_status, get_task_result, token_seconds_left and
\* token_is_expired leave it as it was, raising or not. None of them looks at
\* the expiry: each refuses only a client that is not logged in, and sends
\* its request otherwise, so also with an expired token. blur_video never
\* calls refresh_expired_token.
C16_OnlyRenewalMutates ==
    /\ [][blurit' # blurit => (last' # last /\ last'.op \in Renewal)]_vars
    /\ [](last.op \in GuardedOps \ Renewal =>
            /\ (last.exc.cls = "BlurItAuthError" => ~blurit.logged_in)
            /\ ((last.op = "get_task_status" /\ blurit.logged_in /\ blurit.token # None)
                  => last.reqs = 1)
            /\ ((last.op = "get_task_result" /\ blurit.logged_in /\ blurit.token # None
                    /\ last.arg.result_url # None)
                  => last.reqs = 1)
            /\ ((last.op = "start_task" /\ blurit.logged_in /\ blurit.token # None
                    /\ ~NoTarget /\ last.arg.path = "file")
                  => last.reqs = 1))
    /\ [](\A i \in 1..Len(trace) : trace[i].op # "refresh_expired_token")

\* blur_video has polled with a token that token_is_expired reports expired
C16_Witness ==
    /\ pc # "client"
    /\ last.op = "get_task_status"
    /\ last.reqs = 1
    /\ IsExpired(blurit, now)

\* C17: start_task checks, in this order, that the client is logged in, that
\* a blur target is selected, and that the path is an existing regular file;
\* on a logged-in client with a target, a missing path or a directory raises
\* BlurItTaskError without any request; the one upload comes after the three
\* checks.
C17_ChecksInOrder ==
    last.op = "start_task" =>
        /\ (~blurit.logged_in => (last.exc.cls = "BlurItAuthError" /\ last.reqs = 0))
        /\ ((blurit.logged_in /\ NoTarget)
              => (last.exc.cls = "BlurItOptionsError" /\ last.reqs = 0))
        /\ ((blurit.logged_in /\ ~NoTarget /\ last.arg.path \in {"missing", "dir"})
              => (last.exc.cls = "BlurItTaskError" /\ last.reqs = 0 /\ last.resp = NoResp))
        /\ last.reqs <= 1
        /\ (last.reqs = 1 => (blurit.logged_in /\ ~NoTarget /\ last.arg.path = "file"))

C17_Witness ==
    /\ last.op = "start_task"
    /\ blurit.logged_in
    /\ ~NoTarget
    /\ last.arg.path = "dir"
    /\ last.exc.cls = "BlurItTaskError"
    /\ last.reqs = 0

\* start_task has passed its checks of login, options and file, and open()
\* or the reading of the source file raises
ReadFails ==
    /\ last.op = "start_task"
    /\ blurit.logged_in /\ blurit.token # None
    /\ ~NoTarget
    /\ last.arg.path = "unreadable"

BadSource ==
    /\ last.op = "start_task"
    /\ blurit.logged_in
    /\ ~NoTarget
    /\ last.arg.path \in {"missing", "dir"}

\* C18, as stated: an I/O error on the source file during the upload of
\* start_task raises BlurItError itself, a missing or non-regular source
\* file raises BlurItTaskError.
C18_ReadErrorIsGeneric ==
    /\ (ReadFails => last.exc.cls = "BlurItError")
    /\ (BadSource => last.exc.cls = "BlurItTaskError")

\* C18, amended: an I/O error on the source file during the upload of
\* start_task raises BlurItTaskError ("Could not process given file"), the
\* class a missing or non-regular source file raises too, and no response
\* is read.
C18_ReadErrorIsTaskError ==
    /\ (ReadFails => (last.exc = UploadFailed /\ last.exc.cls = "BlurItTaskError"
                        /\ last.resp = NoResp))
    /\ (BadSource => last.exc.cls = "BlurItTaskError")

C18_Witness == ReadFails /\ last.exc.cls = "BlurItTaskError"

\* what start_task raises on the response the last call got
AsStartTask == Upload(blurit, "file", last.resp).exc

FailedPoll == last.op = "get_task_status" /\ ErrorResponse

KnownStatuses == {Some("Sent"), Some("Started"), Some("Failed"), Some("Succeeded")}

\* C19, as stated: on a response other than 200 get_task_status raises an
\* error of the kind start_task raises on it, BlurItTaskError when the body
\* has an error field and BlurItError otherwise; BlurItTaskStatusError comes
\* only from a status value that is unknown.
C19_SameKindAsStartTask ==
    /\ (FailedPoll => last.exc.cls = AsStartTask.cls)
    /\ ((last.op = "get_task_status" /\ last.exc.cls = "BlurItTaskStatusError")
          => last.resp.status_code = 200)

\* C19, amended: on a response other than 200 get_task_status raises what
\* start_task raises on it, except that it raises BlurItTaskStatusError,
\* with the same message, type and code, where start_task raises
\* BlurItTaskError; so BlurItTaskStatusError comes from a failed poll whose
\* body has an error field as well as from a 200 response whose status value
\* is none of Sent, Started, Failed, Succeeded.
C19_StatusErrorForFailedPoll ==
    /\ (FailedPoll =>
          /\ last.exc = IF AsStartTask.cls = "BlurItTaskError"
                        THEN [AsStartTask EXCEPT !.cls = "BlurItTaskStatusError"]
                        ELSE AsStartTask
          /\ last.exc.cls # "BlurItTaskError")
    /\ ((last.op = "get_task_status" /\ last.exc.cls = "BlurItTaskStatusError")
          => \/ ErrorResponse /\ Get(last.resp.body, "error") # None
             \/ /\ last.resp.status_code = 200
                /\ Has(last.resp.body, "status")
                /\ last.resp.body.status \notin KnownStatuses)

C19_Witness ==
    /\ FailedPoll
    /\ Get(last.resp.body, "error") # None
    /\ AsStartTask.cls = "BlurItTaskError"
    /\ last.exc.cls = "BlurItTaskStatusError"

\* C20: a login that returns has set logged_in and stored token, expireTime
\* and refreshToken of the response, with token_creation_date the time of
\* the call; a refresh_expired_token that returns has sent the refresh token
\* stored before the call and has done the same with its response; so
\* token_seconds_left right after it is max(0, expireTime of the response),
\* however old the credential before was.
C20_RenewalStoresResponse ==
    [][(last' # last /\ last'.op \in Renewal /\ last'.exc = NoExc) =>
          LET body == last'.resp.body IN
          /\ last'.resp.status_code = 200
          /\ blurit'.logged_in
          /\ blurit'.token = body.token
          /\ blurit'.expire_time = body.expireTime
          /\ blurit'.refresh_token = body.refreshToken
          /\ blurit'.token_creation_date = Some(now')
          /\ (last'.op = "refresh_expired_token" =>
                (blurit.logged_in /\ last'.sent = blurit.refresh_token))
          /\ (body.expireTime # None =>
                token_seconds_left(blurit', now').ret = Some(Max0(Val(body.expireTime))))]_vars

\* a refresh at the last instant of the clock, of a credential that a login
\* had stored before, answered with the longest lifetime
C20_Witness ==
    /\ Returned("refresh_expired_token")
    /\ now = MaxTime
    /\ last.sent # None
    /\ blurit.token_creation_date = Some(MaxTime)
    /\ blurit.expire_time = Some(MaxExpire)
    /\ SecondsLeftAt(blurit, now) = MaxExpire

\* C22, as stated: whatever the client's methods are called with and
\* answered, logged_in = True implies that token, expire_time, refresh_token
\* and token_creation_date are all set, and logged_in never goes from True
\* back to False.
C22_LoggedInHasCredential ==
    /\ [](blurit.logged_in =>
            /\ blurit.token # None
            /\ blurit.expire_time # None
            /\ blurit.refresh_token # None
            /\ blurit.token_creation_date # None)
    /\ [][blurit.logged_in => blurit'.logged_in]_vars

Flags(st) == {f \in {"sent", "started", "succeeded", "failed"} : st[f]}

\* C23: a BlurItTaskStatus that get_task_status returns has exactly one of
\* sent, started, succeeded, failed set, the one its response names;
\* result_url is set only with succeeded and error_message only with failed,
\* both taken from that response; the object is built from the job id and
\* the response of this poll alone, and blur_video holds the one of its
\* latest poll.
C23_OneFlagFromThisPoll ==
    /\ [](Returned("get_task_status") =>
            LET st == Val(last.ret)
                body == last.resp.body
            IN  /\ Cardinality(Flags(st)) = 1
                /\ st.sent <=> body.status = Some("Sent")
                /\ st.started <=> body.status = Some("Started")
                /\ st.succeeded <=> body.status = Some("Succeeded")
                /\ st.failed <=> body.status = Some("Failed")
                /\ st.result_url = IF st.succeeded THEN body.output_media ELSE None
                /\ st.error_message = IF st.failed THEN body.error ELSE None
                /\ st.job_id = last.arg.job_id
                /\ st.json = body)
    /\ [][task_status' # task_status =>
            (last'.op = "get_task_status" /\ last'.exc = NoExc /\ task_status' = last'.ret)]_vars

\* the second poll of blur_video returns Succeeded after a first one that
\* returned something else
C23_Witness ==
    /\ pc # "client"
    /\ polls = 2
    /\ Returned("get_task_status")
    /\ Flags(Val(task_status)) = {"succeeded"}
    /\ Val(task_status).result_url = Some("url1")
    /\ Val(task_status).error_message = None

Downloads == {i \in 1..Len(trace) : trace[i].op = "get_task_result"}

\* C24: once a poll of blur_video has returned Failed, blur_video is done
\* without an exception, has called get_task_result not once and has left
\* the destination as it was; the destination changes only in a call of
\* get_task_result made after a poll that returned Succeeded.
C24_FailedWritesNothing ==
    /\ []((task_status # None /\ Val(task_status).failed) =>
            /\ pc = "done"
            /\ Returned("get_task_status")
            /\ Downloads = {}
            /\ outfile = args.previous)
    /\ [](Downloads # {} => (task_status # None /\ Val(task_status).succeeded))
    /\ [][outfile' # outfile =>
            (last'.op = "get_task_result" /\ Val(task_status).succeeded
               /\ task_status' = task_status)]_vars

\* Failed at the second poll, the destination still has its old content
C24_Witness ==
    /\ pc = "done"
    /\ polls = 2
    /\ Val(task_status).failed
    /\ Val(task_status).error_message = Some("crashed")
    /\ args.previous = Some(<<9>>)
    /\ outfile = Some(<<9>>)

Stopped == pc \in {"done", "raised"}

\* C21: the wait loop of blur_video ends only on a poll that returned
\* Succeeded or Failed (or on an exception): once a poll has returned one of
\* the two, blur_video terminates; as long as every poll returns Sent or
\* Started and nothing raises, it polls and sleeps again and again, beyond
\* any number of polls, and does not return.
C21_EndsOnlyOnTerminalStatus ==
    /\ [](pc = "done" => Terminal(task_status))
    /\ ((Returned("get_task_status") /\ Terminal(task_status)) ~> Stopped)
    /\ ([]~Stopped =>
          /\ []<>(pc = "sleep" /\ Returned("get_task_status") /\ ~Terminal(task_status))
          /\ []<>(pc = "get_task_status"))

\* blur_video is asleep after more polls than are counted, the last one
\* answered Started
C21_Witness ==
    /\ pc = "sleep"
    /\ polls = MaxPolls
    /\ sleeps = MaxPolls
    /\ Returned("get_task_status")
    /\ Val(last.ret).started

====
